---- MODULE Spec2Model ----
(***************************************************************************)
(* Model of src/cloudflare-api.ts: the three custom-hostname operations    *)
(* (createCustomHostname, getCustomHostnameStatus, deleteCustomHostname),  *)
(* each an async function that suspends at its awaits, run as concurrent   *)
(* calls against one remote zone.                                          *)
(*                                                                         *)
(* An optional JSON field / JavaScript undefined is a sequence of length   *)
(* at most one: None == <<>> (absent), Some(v) == <<v>>.                   *)
(***************************************************************************)
EXTENDS Naturals, Sequences, FiniteSets

\* Number of calls in flight at once (each call is one invocation of one operation).
NumCalls == 2
\* Number of record identifiers the remote zone can hand out.
MaxRecords == 2

Calls == 1..NumCalls
Ids == 1..MaxRecords

None == <<>>
Some(v) == <<v>>

VARIABLES
    zone,           \* remote: the custom-hostname records the zone holds
    nextId,         \* remote: the identifier the next created record gets
    removedBy,      \* remote: record id -> the call whose DELETE removed it (0: nobody)
    overlapped,     \* pairs {p, q} of calls that were in progress at the same time
    pc,             \* call -> the await it is suspended at ("idle" before, "done" after)
    op,             \* call -> the operation invoked
    env,            \* call -> the env argument
    hostname,       \* call -> the hostname argument
    calls,          \* call -> the fetch requests it has issued, in order
    response,       \* call -> response / listResponse: what the first fetch resolved to
    result,         \* call -> result / listResult: what response.json() resolved to
    hostnameId,     \* call -> hostnameId of deleteCustomHostname
    deleteResponse, \* call -> deleteResponse of deleteCustomHostname
    returned        \* call -> how the call completed

vars == <<zone, nextId, removedBy, overlapped, pc, op, env, hostname, calls,
          response, result, hostnameId, deleteResponse, returned>>

remote == <<zone, nextId, removedBy>>
locals == <<response, result, hostnameId, deleteResponse>>

(***************************************************************************)
(* JavaScript values                                                       *)
(***************************************************************************)
\* ToBoolean of an optional string: undefined and "" are falsy.
Truthy(o) == o /= None /\ o /= Some("")

\* a || b on optional strings.
OrElseNoFallback(a, b) == a
OrElse(a, b) == IF Truthy(a) THEN a ELSE b

\* a || [] on an optional array (every array, the empty one too, is truthy).
OrEmpty(a) == IF a = None THEN <<>> ELSE a[1]

(***************************************************************************)
(* Inputs                                                                  *)
(***************************************************************************)
Hostnames == {"example.com", "shop.example.com"}

ConfiguredEnv == [CLOUDFLARE_ZONE_ID |-> Some("zone1"), DISPATCH_NAMESPACE_API_TOKEN |-> Some("token1")]

Envs ==
    { ConfiguredEnv,
      [CLOUDFLARE_ZONE_ID |-> None, DISPATCH_NAMESPACE_API_TOKEN |-> Some("token1")],
      [CLOUDFLARE_ZONE_ID |-> Some("zone1"), DISPATCH_NAMESPACE_API_TOKEN |-> Some("")],
      [CLOUDFLARE_ZONE_ID |-> None, DISPATCH_NAMESPACE_API_TOKEN |-> None] }

(***************************************************************************)
(* getAuthHeaders, isApiConfigured                                         *)
(***************************************************************************)
getAuthHeaders(e) ==
    IF Truthy(e.DISPATCH_NAMESPACE_API_TOKEN)
    THEN [Authorization |-> Some(<<"Bearer", e.DISPATCH_NAMESPACE_API_TOKEN[1]>>),
          ContentType   |-> Some("application/json")]
    ELSE [Authorization |-> None, ContentType |-> None]

isApiConfiguredZoneOnly(e) == Truthy(e.CLOUDFLARE_ZONE_ID)
isApiConfigured(e) ==
    Truthy(e.CLOUDFLARE_ZONE_ID) /\ Truthy(e.DISPATCH_NAMESPACE_API_TOKEN)

(***************************************************************************)
(* The fetch requests.  url is the path under                              *)
(* /client/v4/zones/<zoneId>/custom_hostnames: a ?hostname= query or an    *)
(* /<id> segment, where an undefined id would print as "undefined" (None). *)
(***************************************************************************)
SslPolicy ==
    [method |-> "http", type |-> "dv",
     settings |-> [http2 |-> "on", min_tls_version |-> "1.2", tls_1_3 |-> "on"]]

Request(m, e, q, i, b) ==
    [method |-> m, zoneId |-> e.CLOUDFLARE_ZONE_ID, query |-> q, id |-> i,
     headers |-> getAuthHeaders(e), body |-> b]

CreateRequest(e, h) ==
    Request("POST", e, None, <<>>, Some([hostname |-> h, ssl |-> SslPolicy]))

\* fetch without a method option is a GET.
LookupRequest(e, h) == Request("GET", e, Some(h), <<>>, None)

\* i is the optional hostnameId; the segment is present either way.
DeleteRequest(e, i) == Request("DELETE", e, None, <<i>>, None)

(***************************************************************************)
(* Values the operations complete with                                     *)
(***************************************************************************)
Pending == [how |-> "pending"]
Return(v) == [how |-> "value", value |-> v]
Throw == [how |-> "exception"]

ErrorStatus(msg) == [status |-> "error", ssl |-> None, verification_errors |-> Some(<<msg>>)]
NotFound == [status |-> "not_found", ssl |-> None, verification_errors |-> None]

NoResponse == [state |-> "none", ok |-> FALSE, body |-> [parses |-> FALSE, result |-> None]]
Rejected == [state |-> "rejected", ok |-> FALSE, body |-> [parses |-> FALSE, result |-> None]]
Resolved(ok, body) == [state |-> "resolved", ok |-> ok, body |-> body]
\* response.json() consumes the body stream of the response.
Consumed(resp) == [resp EXCEPT !.body = [parses |-> FALSE, result |-> None]]
NoResult == [read |-> "none", result |-> None]

(***************************************************************************)
(* The remote custom-hostname service, as the fetch calls see it.  Its     *)
(* response schema is result: []{id, status, ssl?, verification_errors?};  *)
(* the client validates none of it.                                        *)
(***************************************************************************)
Record(i, h, st, ssl, ve) ==
    [id |-> i, hostname |-> h, status |-> st, ssl |-> ssl, verification_errors |-> ve]

Ssl(st, m, vm, ves, vrs) ==
    [status |-> st, method |-> m, validation_method |-> vm,
     validation_errors |-> ves, validation_records |-> vrs]

\* What the service holds after a successful POST with SslPolicy.
CreatedRecord(i, h) ==
    Record(i, h, "pending",
           Some(Ssl("initializing", Some(SslPolicy.method), None, None, None)), None)

ActiveRecord(i, h) ==
    Record(i, h, "active", Some(Ssl("active", Some("http"), None, Some(<<>>), None)), Some(<<>>))

\* The service's ?hostname= filter: which stored hostnames a query selects.
\* The client never compares a returned record's hostname with its query.
FilterMatches(q, h) == h = q \/ (q = "example.com" /\ h = "shop.example.com")

Matching(q) == {r \in zone : FilterMatches(q, r.hostname)}

\* Every ordering of a finite set, as sequences.
Orderings(S) ==
    {s \in [1..Cardinality(S) -> S] : \A i, j \in 1..Cardinality(S) : i /= j => s[i] /= s[j]}

\* The bodies a response can carry: no JSON at all (a gateway's HTML page), an
\* envelope without a result, an envelope with the matching records.
LookupBodies(q) ==
    {[parses |-> FALSE, result |-> None], [parses |-> TRUE, result |-> None]}
        \cup {[parses |-> TRUE, result |-> Some(s)] : s \in Orderings(Matching(q))}

\* What a GET ?hostname=q can resolve to: a success carries an envelope.
LookupResponses(q) ==
    {Resolved(TRUE, b) : b \in {c \in LookupBodies(q) : c.parses}}
        \cup {Resolved(FALSE, b) : b \in LookupBodies(q)}

\* The body of a POST or DELETE response; the client never reads it.
Envelope == [parses |-> TRUE, result |-> None]

\* A POST is accepted only for a hostname the zone does not hold yet, while
\* the zone has identifiers left.
CanCreate(h) == nextId <= MaxRecords /\ \A r \in zone : r.hostname /= h

\* A DELETE /<i> removes only a record the zone holds.
CanRemove(i) == i /= None /\ \E r \in zone : r.id = i[1]

(***************************************************************************)
(* Invocation: the bookkeeping common to the three operations              *)
(***************************************************************************)
InProgress(q) == pc[q] \notin {"idle", "done"}

Invoke(p, o, e, h) ==
    /\ pc[p] = "idle"
    /\ op' = [op EXCEPT ![p] = o]
    /\ env' = [env EXCEPT ![p] = e]
    /\ hostname' = [hostname EXCEPT ![p] = h]
    /\ overlapped' = overlapped \cup {{p, q} : q \in {c \in Calls \ {p} : InProgress(c)}}

Complete(p, r) ==
    /\ pc' = [pc EXCEPT ![p] = "done"]
    /\ returned' = [returned EXCEPT ![p] = r]

Suspend(p, at) ==
    /\ pc' = [pc EXCEPT ![p] = at]
    /\ UNCHANGED returned

(***************************************************************************)
(* createCustomHostname                                                    *)
(***************************************************************************)
createReturnTrue(resp) == TRUE
createReturn(resp) == resp.ok

createCatch == Return(FALSE)

\* Lines 20-41: the configuration gate, then the POST is sent and awaited.
createCustomHostname(p, e, h) ==
    /\ Invoke(p, "create", e, h)
    /\ IF ~isApiConfigured(e)
       THEN Complete(p, Return(FALSE)) /\ UNCHANGED calls
       ELSE /\ calls' = [calls EXCEPT ![p] = Append(@, CreateRequest(e, h))]
            /\ Suspend(p, "create_fetch")
    /\ UNCHANGED <<remote, locals>>

\* Lines 26-46: the awaited POST settles.  The service accepted it or not;
\* its response is delivered, or the transport fails and fetch rejects
\* (before or after the service acted).
createFetchSettled(p) ==
    /\ pc[p] = "create_fetch"
    /\ \E accepted \in {a \in BOOLEAN : a => CanCreate(hostname[p])}, delivered \in BOOLEAN :
         /\ IF accepted
            THEN /\ zone' = zone \cup {CreatedRecord(nextId, hostname[p])}
                 /\ nextId' = nextId + 1
            ELSE UNCHANGED <<zone, nextId>>
         /\ response' = [response EXCEPT ![p] =
                            IF delivered THEN Resolved(accepted, Envelope) ELSE Rejected]
         /\ Complete(p, IF delivered THEN Return(createReturn(response'[p])) ELSE createCatch)
    /\ UNCHANGED <<removedBy, overlapped, op, env, hostname, calls,
                   result, hostnameId, deleteResponse>>

(***************************************************************************)
(* getCustomHostnameStatus                                                 *)
(***************************************************************************)
statusCatch == Return(ErrorStatus("Network error"))

\* Line 77.
statusFailedNever(resp) == FALSE
statusFailed(resp) == ~resp.ok

\* Line 81 (and 115): !result.result || result.result.length === 0.
ResultEmpty(r) == r = None \/ Len(r[1]) = 0

\* Lines 85-96: the projection of the first record.
Project(hostnameData) ==
    [status |-> hostnameData.status,
     ssl |-> IF hostnameData.ssl /= None
             THEN Some([status |-> hostnameData.ssl[1].status,
                        validation_method |->
                            OrElse(hostnameData.ssl[1].method,
                                   hostnameData.ssl[1].validation_method),
                        validation_errors |-> OrEmpty(hostnameData.ssl[1].validation_errors),
                        validation_records |-> OrEmpty(hostnameData.ssl[1].validation_records)])
             ELSE None,
     verification_errors |-> Some(OrEmpty(hostnameData.verification_errors))]

\* Lines 77-96, once response.json() has resolved to an envelope with result r.
StatusOf(resp, r) ==
    IF statusFailed(resp) THEN ErrorStatus("API request failed")
    ELSE IF ResultEmpty(r) THEN NotFound
    ELSE Project(r[1][1])

\* Lines 65-73: the configuration gate, then the lookup is sent and awaited.
getCustomHostnameStatus(p, e, h) ==
    /\ Invoke(p, "status", e, h)
    /\ IF ~isApiConfigured(e)
       THEN Complete(p, Return(ErrorStatus("API not configured"))) /\ UNCHANGED calls
       ELSE /\ calls' = [calls EXCEPT ![p] = Append(@, LookupRequest(e, h))]
            /\ Suspend(p, "status_fetch")
    /\ UNCHANGED <<remote, locals>>

\* Lines 71-75 and 97-99: the awaited lookup settles; response.json() is
\* called and awaited, or fetch rejected.
statusFetchSettled(p) ==
    /\ pc[p] = "status_fetch"
    /\ \E r \in LookupResponses(hostname[p]) \cup {Rejected} :
         /\ response' = [response EXCEPT ![p] = r]
         /\ IF r = Rejected THEN Complete(p, statusCatch) ELSE Suspend(p, "status_json")
    /\ UNCHANGED <<remote, overlapped, op, env, hostname, calls,
                   result, hostnameId, deleteResponse>>

\* Lines 75-99: the awaited response.json() settles: the body stream fails,
\* the body is no JSON, or it parses and the rest of the function runs.
statusJsonSettled(p) ==
    /\ pc[p] = "status_json"
    /\ \E streamed \in BOOLEAN :
         LET read == IF ~streamed THEN "rejected"
                     ELSE IF ~response[p].body.parses THEN "syntaxerror" ELSE "parsed"
         IN  /\ result' = [result EXCEPT ![p] =
                              [read |-> read,
                               result |-> IF read = "parsed" THEN response[p].body.result ELSE None]]
             /\ response' = [response EXCEPT ![p] = Consumed(@)]
             /\ Complete(p, IF read = "parsed"
                            THEN Return(StatusOf(response[p], result'[p].result))
                            ELSE statusCatch)
    /\ UNCHANGED <<remote, overlapped, op, env, hostname, calls,
                   hostnameId, deleteResponse>>

(***************************************************************************)
(* deleteCustomHostname                                                    *)
(***************************************************************************)
deleteReturnTrue(resp) == TRUE
deleteReturn(resp) == resp.ok

deleteCatchRethrow == Throw
deleteCatch == Return(FALSE)

\* Lines 115-119 on a parsed listResult: return false, or go on to the DELETE
\* of the first record's id.
ReturnFalse == [next |-> "return", id |-> None]
Proceed(i) == [next |-> "fetch", id |-> i]

\* As if line 119 took the last record.
ResolveIdLast(listResponse, r) ==
    IF ~listResponse.ok \/ ResultEmpty(r) THEN ReturnFalse
    ELSE Proceed(Some(r[1][Len(r[1])].id))

\* As if line 115 tested the status only and line 119 read result?.[0]?.id.
ResolveIdOptionalChaining(listResponse, r) ==
    IF ~listResponse.ok THEN ReturnFalse
    ELSE IF ResultEmpty(r) THEN Proceed(None)
    ELSE Proceed(Some(r[1][1].id))

\* As if line 115 did not test listResponse.ok.
ResolveIdIgnoreStatus(listResponse, r) ==
    IF ResultEmpty(r) THEN ReturnFalse ELSE Proceed(Some(r[1][1].id))

ResolveId(listResponse, r) ==
    IF ~listResponse.ok \/ ResultEmpty(r) THEN ReturnFalse
    ELSE Proceed(Some(r[1][1].id))

\* Lines 102-111: the configuration gate, then the lookup is sent and awaited.
deleteCustomHostname(p, e, h) ==
    /\ Invoke(p, "delete", e, h)
    /\ IF ~isApiConfigured(e)
       THEN Complete(p, Return(FALSE)) /\ UNCHANGED calls
       ELSE /\ calls' = [calls EXCEPT ![p] = Append(@, LookupRequest(e, h))]
            /\ Suspend(p, "delete_list_fetch")
    /\ UNCHANGED <<remote, locals>>

\* Lines 109-113 and 128-130: the awaited lookup settles; listResponse.json()
\* is called and awaited, or fetch rejected.
deleteListFetchSettled(p) ==
    /\ pc[p] = "delete_list_fetch"
    /\ \E r \in LookupResponses(hostname[p]) \cup {Rejected} :
         /\ response' = [response EXCEPT ![p] = r]
         /\ IF r = Rejected THEN Complete(p, deleteCatch) ELSE Suspend(p, "delete_list_json")
    /\ UNCHANGED <<remote, overlapped, op, env, hostname, calls,
                   result, hostnameId, deleteResponse>>

\* Lines 113-125 and 128-130: the awaited listResponse.json() settles; on a
\* match the DELETE is sent and awaited.
deleteListJsonSettled(p) ==
    /\ pc[p] = "delete_list_json"
    /\ \E streamed \in BOOLEAN :
         LET read == IF ~streamed THEN "rejected"
                     ELSE IF ~response[p].body.parses THEN "syntaxerror" ELSE "parsed"
             todo == IF read = "parsed" THEN ResolveId(response[p], response[p].body.result)
                     ELSE ReturnFalse
         IN  /\ result' = [result EXCEPT ![p] =
                              [read |-> read,
                               result |-> IF read = "parsed" THEN response[p].body.result ELSE None]]
             /\ response' = [response EXCEPT ![p] = Consumed(@)]
             /\ IF read /= "parsed" THEN
                    Complete(p, deleteCatch) /\ UNCHANGED <<hostnameId, calls>>
                ELSE IF todo.next = "return" THEN
                    Complete(p, Return(FALSE)) /\ UNCHANGED <<hostnameId, calls>>
                ELSE
                    /\ hostnameId' = [hostnameId EXCEPT ![p] = todo.id]
                    /\ calls' = [calls EXCEPT ![p] = Append(@, DeleteRequest(env[p], todo.id))]
                    /\ Suspend(p, "delete_fetch")
    /\ UNCHANGED <<remote, overlapped, op, env, hostname, deleteResponse>>

\* Lines 122-130: the awaited DELETE settles.  The service removed the record
\* or refused; its response is delivered, or the transport fails and fetch
\* rejects (before or after the service acted).
deleteFetchSettled(p) ==
    /\ pc[p] = "delete_fetch"
    /\ \E removed \in {a \in BOOLEAN : a => CanRemove(hostnameId[p])}, delivered \in BOOLEAN :
         /\ IF removed
            THEN /\ zone' = {r \in zone : r.id /= hostnameId[p][1]}
                 /\ removedBy' = [removedBy EXCEPT ![hostnameId[p][1]] = p]
            ELSE UNCHANGED <<zone, removedBy>>
         /\ deleteResponse' = [deleteResponse EXCEPT ![p] =
                                  IF delivered THEN Resolved(removed, Envelope) ELSE Rejected]
         /\ Complete(p, IF delivered THEN Return(deleteReturn(deleteResponse'[p]))
                        ELSE deleteCatch)
    /\ UNCHANGED <<nextId, overlapped, op, env, hostname, calls,
                   response, result, hostnameId>>

(***************************************************************************)
(* Specifications                                                          *)
(***************************************************************************)
InitCalls ==
    /\ overlapped = {}
    /\ pc = [p \in Calls |-> "idle"]
    /\ op = [p \in Calls |-> "none"]
    /\ env = [p \in Calls |-> ConfiguredEnv]
    /\ hostname = [p \in Calls |-> ""]
    /\ calls = [p \in Calls |-> <<>>]
    /\ response = [p \in Calls |-> NoResponse]
    /\ result = [p \in Calls |-> NoResult]
    /\ hostnameId = [p \in Calls |-> None]
    /\ deleteResponse = [p \in Calls |-> NoResponse]
    /\ returned = [p \in Calls |-> Pending]

\* Zones the calls can find: empty, one hostname, a hostname and its subdomain.
InitialZones ==
    { {},
      {ActiveRecord(1, "example.com")},
      {ActiveRecord(1, "shop.example.com"), ActiveRecord(2, "example.com")} }

Init ==
    /\ zone \in {z \in InitialZones : Cardinality(z) <= MaxRecords}
    /\ nextId = Cardinality(zone) + 1
    /\ removedBy = [i \in Ids |-> 0]
    /\ InitCalls

\* One step of call p, its hostname argument drawn from H.
Step(p, H) ==
    \/ \E e \in Envs, h \in H : createCustomHostname(p, e, h)
    \/ \E e \in Envs, h \in H : getCustomHostnameStatus(p, e, h)
    \/ \E e \in Envs, h \in H : deleteCustomHostname(p, e, h)
    \/ createFetchSettled(p)
    \/ statusFetchSettled(p)
    \/ statusJsonSettled(p)
    \/ deleteListFetchSettled(p)
    \/ deleteListJsonSettled(p)
    \/ deleteFetchSettled(p)

\* Concurrent calls, all for the same hostname.
Next == \E p \in Calls : Step(p, {"example.com"})

Spec == Init /\ [][Next]_vars

\* The remote records a single call can be answered with: every combination of
\* present, absent and empty fields the projection distinguishes.
OptionalStrings == {None, Some(""), Some("http"), Some("txt")}
OptionalErrors == {None, Some(<<>>), Some(<<"timed out">>)}
OptionalValidationRecords ==
    {None, Some(<<>>), Some(<<[txt_name |-> "_acme-challenge", txt_value |-> "v1"]>>)}
RemoteStatuses == {"active", "pending", "error", "not_found", "moved"}

RemoteSsls ==
    {None} \cup
    {Some(Ssl("pending_validation", m, vm, ves, vrs)) :
        m \in OptionalStrings \ {Some("txt")}, vm \in OptionalStrings \ {Some("http")},
        ves \in OptionalErrors, vrs \in OptionalValidationRecords}

RemoteRecords(i, h) ==
    {Record(i, h, st, ssl, ve) : st \in RemoteStatuses, ssl \in RemoteSsls, ve \in OptionalErrors}

\* One call of any operation, for either hostname, against a zone that is empty
\* or holds an arbitrary record for shop.example.com and possibly one for
\* example.com.
InitSingle ==
    /\ \E r \in RemoteRecords(1, "shop.example.com") :
         zone \in {{}, {r}, {r, ActiveRecord(2, "example.com")}}
    /\ nextId = Cardinality(zone) + 1
    /\ removedBy = [i \in Ids |-> 0]
    /\ InitCalls

NextSingle == Step(1, Hostnames)

SpecSingle == InitSingle /\ [][NextSingle]_vars

(***************************************************************************)
(* Properties                                                              *)
(***************************************************************************)
Done(p) == pc[p] = "done"
Invoked(p, o) == op[p] = o

\* The zone identifier or the token is absent or empty.
Missing(o) == o = None \/ o = Some("")
Unconfigured(e) == Missing(e.CLOUDFLARE_ZONE_ID) \/ Missing(e.DISPATCH_NAMESPACE_API_TOKEN)

ReturnedBool(p, b) == returned[p].how = "value" /\ returned[p].value = b
ReturnedError(p, msg) ==
    /\ returned[p].how = "value"
    /\ returned[p].value = [status |-> "error", ssl |-> None,
                            verification_errors |-> Some(<<msg>>)]

\* The failure value an operation is documented to collapse to.
ReturnedFailure(p, msg) ==
    IF Invoked(p, "status") THEN ReturnedError(p, msg) ELSE ReturnedBool(p, FALSE)

\* C1: an operation invoked with the zone identifier or the token absent or
\* empty issues no network call and completes at once with its unconfigured
\* result: false for create and delete, the "API not configured" error for
\* status.
C1_UnconfiguredShortCircuits ==
    \A p \in Calls :
        (op[p] /= "none" /\ Unconfigured(env[p])) =>
            /\ calls[p] = <<>>
            /\ Done(p)
            /\ ReturnedFailure(p, "API not configured")

C1_Witness ==
    \E p, q \in Calls :
        /\ Invoked(p, "status") /\ env[p].CLOUDFLARE_ZONE_ID = None /\ Done(p)
        /\ Invoked(q, "delete") /\ env[q].DISPATCH_NAMESPACE_API_TOKEN = Some("") /\ Done(q)

\* A transport-level failure hit call p: a fetch rejected, or the read of a
\* response body did.
TransportFailed(p) ==
    \/ response[p].state = "rejected"
    \/ result[p].read = "rejected"
    \/ deleteResponse[p].state = "rejected"

\* C2: no call ever completes by throwing, and a call hit by a transport
\* failure at any of its awaits is completed with its failure value: false
\* for create and delete, the "Network error" status for status.
C2_TransportFailuresCaught ==
    \A p \in Calls :
        /\ returned[p].how /= "exception"
        /\ TransportFailed(p) => Done(p) /\ ReturnedFailure(p, "Network error")

C2_Witness ==
    \E p, q \in Calls :
        /\ Invoked(p, "delete") /\ deleteResponse[p].state = "rejected" /\ Done(p)
        /\ Invoked(q, "status") /\ result[q].read = "rejected" /\ Done(q)

\* The lookup of call p completed with an HTTP status and its body arrived.
LookupAnswered(p) ==
    response[p].state = "resolved" /\ result[p].read \in {"parsed", "syntaxerror"}

\* The lookup of call p succeeded with a non-empty result list.
LookupMatched(p) ==
    /\ response[p].state = "resolved" /\ response[p].ok
    /\ result[p].read = "parsed"
    /\ result[p].result /= None
    /\ Len(result[p].result[1]) >= 1

FirstRecord(p) == result[p].result[1][1]

\* C3: getCustomHostnameStatus on a configured client returns the "API request
\* failed" error whenever the lookup completes with a non-success HTTP
\* status, whatever its body is, a body that is no JSON included.
C3_NonSuccessIsRequestFailed ==
    \A p \in Calls :
        (Invoked(p, "status") /\ Done(p) /\ LookupAnswered(p) /\ ~response[p].ok) =>
            ReturnedError(p, "API request failed")

\* C6 as claimed: a returned status of not_found, and every error value the
\* client produces itself, carries no SSL sub-record, whatever the remote
\* record is.
C6_NotFoundNeverCarriesSsl ==
    \A p \in Calls :
        (Invoked(p, "status") /\ Done(p) /\ returned[p].how = "value") =>
            /\ returned[p].value.status = "not_found" => returned[p].value.ssl = None
            /\ ~LookupMatched(p) => returned[p].value.ssl = None

\* C6 as amended: the values getCustomHostnameStatus produces itself -- not_found
\* for a missing or empty result list, and the errors for an unconfigured
\* client, a non-success HTTP status and a transport or parse failure -- carry
\* no SSL sub-record.
C6_ClientValuesCarryNoSsl ==
    \A p \in Calls :
        (Invoked(p, "status") /\ Done(p) /\ ~LookupMatched(p)) =>
            /\ returned[p].how = "value"
            /\ returned[p].value.ssl = None
            /\ returned[p].value.status \in {"not_found", "error"}

C6_Witness ==
    \E p \in Calls :
        /\ Invoked(p, "status") /\ Done(p)
        /\ response[p].ok /\ result[p].result = Some(<<>>)
        /\ returned[p].value.status = "not_found"

\* C7: when the lookup succeeds with a non-empty result list, the returned
\* value is the projection of the first record: status copied; ssl present
\* iff the record has one; ssl.validation_method the record's method when
\* non-empty, else its validation_method; ssl.validation_errors,
\* ssl.validation_records and verification_errors the record's when present,
\* else empty.
C7_ProjectsFirstRecord ==
    \A p \in Calls :
        (Invoked(p, "status") /\ Done(p) /\ LookupMatched(p)) =>
            LET hd == FirstRecord(p)
                v == returned[p].value
            IN  /\ returned[p].how = "value"
                /\ v.status = hd.status
                /\ (v.ssl /= None) <=> (hd.ssl /= None)
                /\ hd.ssl /= None =>
                    /\ v.ssl[1].validation_method =
                          (IF ~Missing(hd.ssl[1].method) THEN hd.ssl[1].method
                           ELSE hd.ssl[1].validation_method)
                    /\ v.ssl[1].validation_errors =
                          (IF hd.ssl[1].validation_errors = None THEN <<>>
                           ELSE hd.ssl[1].validation_errors[1])
                    /\ v.ssl[1].validation_records =
                          (IF hd.ssl[1].validation_records = None THEN <<>>
                           ELSE hd.ssl[1].validation_records[1])
                /\ v.verification_errors =
                      Some(IF hd.verification_errors = None THEN <<>>
                           ELSE hd.verification_errors[1])

\* The lookup returned two records; the first has an empty method, a
\* validation_method, and no error lists.
C7_Witness ==
    \E p \in Calls :
        /\ Invoked(p, "status") /\ Done(p) /\ LookupMatched(p)
        /\ Len(result[p].result[1]) = 2
        /\ FirstRecord(p).status = "pending"
        /\ FirstRecord(p).ssl =
              Some(Ssl("pending_validation", Some(""), Some("txt"), None, None))
        /\ returned[p].value =
              [status |-> "pending",
               ssl |-> Some([status |-> "pending_validation", validation_method |-> Some("txt"),
                             validation_errors |-> <<>>, validation_records |-> <<>>]),
               verification_errors |-> Some(<<>>)]

\* Call p sent a DELETE addressed to record id i as its second request.
DeleteSentTo(p, i) ==
    /\ Len(calls[p]) = 2
    /\ calls[p][2].method = "DELETE"
    /\ calls[p][2].id = <<Some(i)>>

DeleteSucceeded(p) == deleteResponse[p].state = "resolved" /\ deleteResponse[p].ok

\* C4 as claimed: deleteCustomHostname on a configured client returns true iff
\* the lookup finds exactly one record and the DELETE addressed to that
\* record's id returns an HTTP success status, and false otherwise.
C4_TrueIffExactlyOneRecord ==
    \A p \in Calls :
        (Invoked(p, "delete") /\ Done(p) /\ ~Unconfigured(env[p])) =>
            /\ ReturnedBool(p, TRUE) \/ ReturnedBool(p, FALSE)
            /\ ReturnedBool(p, TRUE) <=>
                  /\ LookupMatched(p)
                  /\ Len(result[p].result[1]) = 1
                  /\ DeleteSentTo(p, FirstRecord(p).id)
                  /\ DeleteSucceeded(p)

\* C4 as amended: it returns true iff the lookup succeeds with a non-empty
\* result list and the DELETE addressed to the id of the first record of that
\* list returns an HTTP success status, and false otherwise.
C4_TrueIffFirstRecordDeleted ==
    \A p \in Calls :
        (Invoked(p, "delete") /\ Done(p) /\ ~Unconfigured(env[p])) =>
            /\ ReturnedBool(p, TRUE) \/ ReturnedBool(p, FALSE)
            /\ ReturnedBool(p, TRUE) <=>
                  /\ LookupMatched(p)
                  /\ DeleteSentTo(p, FirstRecord(p).id)
                  /\ DeleteSucceeded(p)

\* The lookup returned two records and the call returned true.
C4_Witness ==
    \E p \in Calls :
        /\ Invoked(p, "delete") /\ Done(p) /\ LookupMatched(p)
        /\ Len(result[p].result[1]) = 2
        /\ ReturnedBool(p, TRUE)

IsLookup(r, e, h) ==
    r.method = "GET" /\ r.query = Some(h) /\ r.id = <<>> /\ r.zoneId = e.CLOUDFLARE_ZONE_ID

\* C5: a deleteCustomHostname call issues at most one lookup followed by at
\* most one DELETE; the DELETE only after a lookup that returned HTTP success
\* with a non-empty result list; when the lookup fails or returns an empty
\* list it returns false having issued the lookup alone.
C5_DeleteOnlyAfterMatch ==
    \A p \in Calls :
        (Invoked(p, "delete") /\ ~Unconfigured(env[p])) =>
            /\ Len(calls[p]) \in {1, 2}
            /\ IsLookup(calls[p][1], env[p], hostname[p])
            /\ Len(calls[p]) = 2 => calls[p][2].method = "DELETE" /\ LookupMatched(p)
            /\ (Done(p) /\ ~LookupMatched(p)) =>
                  ReturnedBool(p, FALSE) /\ Len(calls[p]) = 1

\* One call got an empty result list, another went on to its DELETE.
C5_Witness ==
    \E p, q \in Calls :
        /\ Invoked(p, "delete") /\ Done(p)
        /\ response[p].ok /\ result[p].result = Some(<<>>) /\ Len(calls[p]) = 1
        /\ Invoked(q, "delete") /\ Len(calls[q]) = 2

\* C8: createCustomHostname on a configured client issues exactly one network
\* call, a POST of the hostname with the fixed SSL policy, and returns true
\* iff that call returns an HTTP success status; a non-success status or a
\* transport failure yields false.
C8_CreateIsOnePost ==
    \A p \in Calls :
        (Invoked(p, "create") /\ ~Unconfigured(env[p])) =>
            /\ Len(calls[p]) = 1
            /\ calls[p][1].method = "POST"
            /\ calls[p][1].zoneId = env[p].CLOUDFLARE_ZONE_ID
            /\ calls[p][1].query = None /\ calls[p][1].id = <<>>
            /\ calls[p][1].body =
                  Some([hostname |-> hostname[p],
                        ssl |-> [method |-> "http", type |-> "dv",
                                 settings |-> [http2 |-> "on", min_tls_version |-> "1.2",
                                               tls_1_3 |-> "on"]]])
            /\ Done(p) =>
                  /\ ReturnedBool(p, TRUE) \/ ReturnedBool(p, FALSE)
                  /\ ReturnedBool(p, TRUE) <=>
                        (response[p].state = "resolved" /\ response[p].ok)

\* One create was accepted, another was refused with a non-success status.
C8_Witness ==
    \E p, q \in Calls :
        /\ Invoked(p, "create") /\ Done(p) /\ ReturnedBool(p, TRUE)
        /\ Invoked(q, "create") /\ Done(q) /\ ReturnedBool(q, FALSE)
        /\ response[q].state = "resolved"

\* The DELETE of call p removed a record of the zone.
RemovedSomething(p) == \E i \in Ids : removedBy[i] = p

\* C9 as claimed: whenever deleteCustomHostname returns false, this call has
\* not removed the remote resource, a failure after the DELETE was sent
\* included.
C9_FalseLeavesResourceUntouched ==
    \A p \in Calls :
        (Invoked(p, "delete") /\ Done(p) /\ ReturnedBool(p, FALSE)) => ~RemovedSomething(p)

\* C9 as amended: whenever deleteCustomHostname returns false because the
\* client is unconfigured, the lookup failed or matched nothing, or the DELETE
\* was answered with a non-success status, this call has not removed the
\* remote resource.
C9_FalseWithoutLostDeleteLeavesResource ==
    \A p \in Calls :
        (/\ Invoked(p, "delete") /\ Done(p) /\ ReturnedBool(p, FALSE)
         /\ \/ Unconfigured(env[p])
            \/ ~LookupMatched(p)
            \/ deleteResponse[p].state = "resolved" /\ ~deleteResponse[p].ok)
        => ~RemovedSomething(p)

\* A DELETE was sent for a record the zone still held and was refused.
C9_Witness ==
    \E p \in Calls :
        /\ Invoked(p, "delete") /\ Done(p) /\ ReturnedBool(p, FALSE)
        /\ deleteResponse[p].state = "resolved" /\ ~deleteResponse[p].ok
        /\ \E r \in zone : hostnameId[p] = Some(r.id)

\* Another call removed the record call p resolved and sent its DELETE for.
LostRace(p) ==
    /\ Invoked(p, "delete") /\ Len(calls[p]) = 2
    /\ hostnameId[p] /= None
    /\ removedBy[hostnameId[p][1]] \notin {0, p}

\* C10 as claimed: a call whose resolved record another caller removes returns
\* the ordinary false, and of concurrent deleteCustomHostname calls for the
\* same hostname at most one returns true.
C10_AtMostOneTruePerHostname ==
    /\ \A p \in Calls : (LostRace(p) /\ Done(p)) => ReturnedBool(p, FALSE)
    /\ \A p, q \in Calls :
          (/\ p /= q /\ {p, q} \in overlapped
           /\ Invoked(p, "delete") /\ Invoked(q, "delete") /\ hostname[p] = hostname[q]
           /\ Done(p) /\ Done(q))
          => ~(ReturnedBool(p, TRUE) /\ ReturnedBool(q, TRUE))

\* C10 as amended: a call whose resolved record another caller removes returns
\* the ordinary false, and of the deleteCustomHostname calls that resolved the
\* same record at most one returns true.
C10_AtMostOneTruePerRecord ==
    /\ \A p \in Calls : (LostRace(p) /\ Done(p)) => ReturnedBool(p, FALSE)
    /\ \A p, q \in Calls :
          (/\ p /= q
           /\ Invoked(p, "delete") /\ Invoked(q, "delete")
           /\ Done(p) /\ Done(q)
           /\ ReturnedBool(p, TRUE) /\ ReturnedBool(q, TRUE))
          => hostnameId[p] /= hostnameId[q]

\* Two overlapping calls resolved the same record; one removed it, the other
\* had its DELETE refused and returned false.
C10_Witness ==
    \E p, q \in Calls :
        /\ {p, q} \in overlapped
        /\ LostRace(p) /\ removedBy[hostnameId[p][1]] = q
        /\ Done(p) /\ ReturnedBool(p, FALSE)
        /\ deleteResponse[p].state = "resolved"
        /\ Done(q) /\ ReturnedBool(q, TRUE)
====
